---- MODULE Spec2Model ----
(***************************************************************************)
(* A model of the Dimensional Directory core: the document manager         *)
(* (sentence/token deduplication, occurrences), the address registry,      *)
(* the relation table, the zero-index mapper, the L-S table manager and    *)
(* the formula parser of the function service.                             *)
(*                                                                         *)
(* Strings that the code splits on '-' are modelled as non-empty sequences *)
(* of segments (the result of str.split('-')); a segment is a pair         *)
(* <<kind, n>>.  Kinds:                                                    *)
(*   "null" the SQL NULL / Python None marker (only as the one-segment     *)
(*          sequence Null),                                                *)
(*   "emp"  the empty string between two dashes,                           *)
(*   "lit"  a word that is not a decimal number,                           *)
(*   "dec"  a decimal number (the only kind int() accepts),                *)
(*   "g1"   the first, identifying group of a uuid4 string,                *)
(*   "hex"  a uuid4 group that holds a letter a-f (int() rejects it),      *)
(*   "docg" the text "doc:" followed by the first group of a uuid4,        *)
(*   "dot"  the last group of a uuid4, a '.', and a decimal position,      *)
(*   "doclit" the text "doc:" followed by a word that is no uuid4 group.   *)
(***************************************************************************)
EXTENDS Integers, Sequences, FiniteSets, TLC

\* ------------------------------------------------------------------ bounds
MaxDocs == 2
MaxAddrCalls == 3
MaxLsCalls == 3

\* ------------------------------------------------------------- strings
Null == << <<"null", 0>> >>
EmptySeg == <<"emp", 0>>
EmptyStr == << EmptySeg >>

\* Python truthiness of an Optional[str]: None and '' are falsy.
Truthy(s) == s # Null /\ s # EmptyStr

\* int(segment): defined on decimal segments only, ValueError otherwise.
IsInt(seg) == seg[1] = "dec"
IntOf(seg) == seg[2]

\* str(uuid.uuid4()): five dash-separated groups.  n identifies the value;
\* g2 is the second group, which holds a letter or happens to be all digits.
Uuid4(n, g2) == << <<"g1", n>>, g2, <<"hex", 3>>, <<"hex", 4>>, <<"hex", 5>> >>
SecondGroups == { <<"hex", 2>>, <<"dec", 7>> }

\* An address built from the first group of the document id only.
DocAddrShort(doc_uuid, position) == << <<"docg", doc_uuid[1][2]>>, <<"dec", position>> >>

\* f"doc:{doc_uuid}-{position}"
DocAddr(doc_uuid, position) ==
    << <<"docg", doc_uuid[1][2]>> >> \o Tail(doc_uuid) \o << <<"dec", position>> >>

\* hashlib.sha256(text).hexdigest(): collision free on the texts of the model.
Sha256(text) == [sha256 |-> text]

\* ------------------------------------------------------------- inputs
\* A sentence text is a sequence of pieces: words (in some case) and
\* punctuation.  A document's content is a sequence of chunks separated by
\* sentence-ending whitespace; a chunk is a sentence text or blank.
Blank == << >>
IsWord(piece) == piece \notin {".", "!"}
Lower(piece) == IF piece = "Dogs" THEN "dogs" ELSE piece
NoType == "NULL"
RelTypes == {"synonym"}
Procs == {"p1", "p2"}
NoShort == <<"none", 0>>
LongIds == {"L1", "L2", "L1=x"}
ExplicitShorts == {"s1"}
\* The values uuid4().hex[:8] takes in the model.
GenShorts == {"g1", "g2"}
NoneStr == "None"

TextA == <<"Dogs", "bark", ".">>
TextB == <<"dogs", "!">>
\* The documents submitted: blank, one sentence, two sentences, and a sentence
\* repeated around a blank chunk, with the default short id; and one with an
\* explicit short id.
Requests == { [content |-> << Blank >>, dbidL |-> "L1", dbidS |-> NoShort],
              [content |-> << TextB >>, dbidL |-> "L1", dbidS |-> NoShort],
              [content |-> << TextA, TextB >>, dbidL |-> "L1", dbidS |-> NoShort],
              [content |-> << TextA, Blank, TextA >>, dbidL |-> "L1", dbidS |-> NoShort],
              [content |-> << TextB >>, dbidL |-> "L1", dbidS |-> <<"S", 1>>] }

VARIABLES
    documents,          \* rows of table documents
    sentences,          \* rows of table sentences
    doc_sentence_map,   \* rows of table doc_sentence_map
    tokens,             \* rows of table tokens
    sentence_token_map, \* rows of table sentence_token_map
    address_book,       \* rows of table address_book
    relations,          \* rows of table relations
    hdf5,               \* the groups of the HDF5 file, as paths
    nextId,             \* the number of uuid4 values drawn so far
    docsStarted,        \* process_document calls made so far
    concurrent,         \* whether operations of different callers may interleave
    pc,                 \* per caller: the place in process_document
    loc,                \* per caller: the locals of process_document
    completed,          \* history: the documents process_document has returned
    retLog,             \* history: what _get_or_create_sentence has returned
    relLast,            \* history: the last set_relation call and its outcome
    addrLog,            \* history: per address, the last non-null id registered
    addrCalls,          \* create_address calls made through the service
    addrLast,           \* history: the arguments of the last create_address call
    sentence_embedding, \* the ids of the sentences rows whose embedding column is set
    addrPc,             \* per caller: the place in create_address
    addrLoc,            \* per caller: the arguments and outcome of create_address
    formula,            \* the formula given to FunctionService._parse_formula
    parsed,             \* what _parse_formula returned or raised
    lstable,            \* rows of table lstable
    perFile,            \* the file <base>/<dbidL>/.LStable of each long id
    globalFile,         \* the file <base>/.GlobalLStable
    lsPc,               \* where each caller of the L-S table manager stands
    lsLoc,              \* the locals of that call
    lsCalls             \* calls of the L-S table manager begun

lsVars == <<lstable, perFile, globalFile, lsPc, lsLoc, lsCalls>>
fsVars == <<formula, parsed>>
mainVars == <<documents, sentences, doc_sentence_map, tokens, sentence_token_map,
              address_book, relations, hdf5, nextId, docsStarted, concurrent, pc, loc,
              completed, retLog, relLast, addrLog, addrCalls, addrLast,
              sentence_embedding, addrPc, addrLoc, formula, parsed>>
\* Everything but the L-S table and the formula parser.
mainStore == <<documents, sentences, doc_sentence_map, tokens, sentence_token_map,
               address_book, relations, hdf5, nextId, docsStarted, concurrent, pc, loc,
               completed, retLog, relLast, addrLog, addrCalls, addrLast,
               sentence_embedding, addrPc, addrLoc>>
vars == <<documents, sentences, doc_sentence_map, tokens, sentence_token_map,
          address_book, relations, hdf5, nextId, docsStarted, concurrent, pc, loc,
          completed, retLog, relLast, addrLog, addrCalls, addrLast,
          sentence_embedding, addrPc, addrLoc, formula, parsed,
          lstable, perFile, globalFile, lsPc, lsLoc, lsCalls>>

\* ------------------------------------------------- DocumentManager helpers
\* _split_into_sentences: split, strip, and drop what is empty after strip.
split_into_sentences(content) == SelectSeq(content, LAMBDA c : c # Blank)

\* _tokenize_sentence: re.findall(r'\b\w+\b', sentence.lower()).
RECURSIVE tokenize_sentence(_)
tokenize_sentence(text) ==
    IF text = << >> THEN << >>
    ELSE IF IsWord(Head(text))
         THEN << Lower(Head(text)) >> \o tokenize_sentence(Tail(text))
         ELSE tokenize_sentence(Tail(text))

\* A lookup that ignores the hash.
SentenceByAnyHash(h) == sentences

\* SELECT uuid FROM sentences WHERE hash = ?
SentenceByHash(h) == { s \in sentences : s.hash = h }

\* The UNIQUE constraints of table sentences (uuid, text, hash): whether the
\* store accepts the row.
SentencesAccepts(row) ==
    \A s \in sentences : s.uuid # row.uuid /\ s.text # row.text /\ s.hash # row.hash

\* An occurrence table that is UNIQUE on (doc, sentence) only.
map_sentence_once(sentence_uuid, doc_uuid, position) ==
    IF \E m \in doc_sentence_map : m.doc_uuid = doc_uuid /\ m.sentence_uuid = sentence_uuid
    THEN doc_sentence_map
    ELSE doc_sentence_map \cup
        { [doc_uuid |-> doc_uuid, sentence_uuid |-> sentence_uuid, position |-> position] }

\* An occurrence table that keeps one row per sentence: the row moves to the
\* document that used the sentence last.
map_sentence_moving(sentence_uuid, doc_uuid, position) ==
    { m \in doc_sentence_map : m.sentence_uuid # sentence_uuid } \cup
        { [doc_uuid |-> doc_uuid, sentence_uuid |-> sentence_uuid, position |-> position] }

\* _map_sentence_to_document: INSERT OR IGNORE under UNIQUE(doc, sentence, position).
map_sentence_to_document(sentence_uuid, doc_uuid, position) ==
    doc_sentence_map \cup
        { [doc_uuid |-> doc_uuid, sentence_uuid |-> sentence_uuid, position |-> position] }

\* _get_or_create_token: the id of the token's row, and the table after it.
TokenByHash(tbl, h) == { t \in tbl : t.hash = h }
TokenNewId(tbl) == Cardinality(tbl) + 1
get_or_create_token(tbl, token_text) ==
    LET found == TokenByHash(tbl, Sha256(token_text))
    IN IF found # {}
       THEN [id |-> (CHOOSE t \in found : TRUE).id, tokens |-> tbl]
       ELSE [id |-> TokenNewId(tbl),
             tokens |-> tbl \cup { [id |-> TokenNewId(tbl), text |-> token_text,
                                    hash |-> Sha256(token_text)] }]

\* _map_token_to_sentence: INSERT OR IGNORE under UNIQUE(sentence_uuid, position).
map_token_to_sentence(stm, token_id, sentence_uuid, position) ==
    IF \E m \in stm : m.sentence_uuid = sentence_uuid /\ m.position = position
    THEN stm
    ELSE stm \cup { [sentence_uuid |-> sentence_uuid, token_id |-> token_id,
                     position |-> position] }

\* ---------------------------------------------------------- ZeroIndexMapper
\* ORDER BY m.doc_uuid, m.position
OccBefore(a, b) ==
    \/ a.doc_uuid[1][2] < b.doc_uuid[1][2]
    \/ a.doc_uuid = b.doc_uuid /\ a.position < b.position
    \/ a.doc_uuid = b.doc_uuid /\ a.position = b.position
       /\ a.sentence_uuid[1][2] <= b.sentence_uuid[1][2]

\* The rows of the SELECT on doc_sentence_map, as the ordered sequence.
RECURSIVE OrderOcc(_)
OrderOcc(S) ==
    IF S = {} THEN << >>
    ELSE LET first == CHOOSE x \in S : \A y \in S \ {x} : OccBefore(x, y)
         IN << first >> \o OrderOcc(S \ {first})

\* ORDER BY m.position, for the tokens of one sentence.
TokBefore(a, b) == a.position <= b.position
RECURSIVE OrderTok(_)
OrderTok(S) ==
    IF S = {} THEN << >>
    ELSE LET first == CHOOSE x \in S : \A y \in S \ {x} : TokBefore(x, y)
         IN << first >> \o OrderTok(S \ {first})

\* The text after "doc:" in the first part, or the first part itself.
DocIdOf(part) ==
    IF part[1] = "docg" THEN << <<"g1", part[2]>> >>
    ELSE IF part[1] = "doclit" THEN << <<"lit", part[2]>> >>
    ELSE << part >>

\* map_addr_to_uuid: [raised, uuid]; raised is the ValueError of int(parts[1]).
map_addr_to_uuid(address) ==
    IF Len(address) < 2 THEN [raised |-> FALSE, uuid |-> Null]
    ELSE IF ~IsInt(address[2]) THEN [raised |-> TRUE, uuid |-> Null]
    ELSE LET doc_id == DocIdOf(address[1])
             position == IntOf(address[2])
             rows == { m \in doc_sentence_map :
                         /\ m.doc_uuid = doc_id
                         /\ m.position = position
                         /\ \E s \in sentences : s.uuid = m.sentence_uuid }
         IN IF rows = {} THEN [raised |-> FALSE, uuid |-> Null]
            ELSE [raised |-> FALSE, uuid |-> (CHOOSE m \in rows : TRUE).sentence_uuid]

\* map_uuid_to_addr: the addresses of the occurrences of a sentence, in order.
map_uuid_to_addr(uuid, doc_id) ==
    LET rows == { m \in doc_sentence_map :
                    /\ m.sentence_uuid = uuid
                    /\ (Truthy(doc_id) => m.doc_uuid = doc_id) }
        sorted == OrderOcc(rows)
    IN [ i \in 1..Len(sorted) |-> DocAddr(sorted[i].doc_uuid, sorted[i].position) ]

\* get_token_addr: f"{sentence_uuid}-{token_position}"
get_token_addr(sentence_uuid, token_position) ==
    sentence_uuid \o << <<"dec", token_position>> >>

\* The (text, position) pairs of a sentence's tokens, ORDER BY m.position.
SentenceTokens(uuid) ==
    LET joined == { [text |-> t.text, position |-> m.position] :
                      <<t, m>> \in { tm \in tokens \X sentence_token_map :
                                       /\ tm[2].sentence_uuid = uuid
                                       /\ tm[2].token_id = tm[1].id } }
    IN OrderTok(joined)

\* get_sentence_info: [found, text, addresses, tokens].
get_sentence_info(uuid) ==
    LET rows == { s \in sentences : s.uuid = uuid }
    IN IF rows = {}
       THEN [found |-> FALSE, text |-> << >>, addresses |-> << >>, tokens |-> << >>]
       ELSE [found |-> TRUE, text |-> (CHOOSE s \in rows : TRUE).text,
             addresses |-> map_uuid_to_addr(uuid, Null),
             tokens |-> SentenceTokens(uuid)]

\* resolve_token_addr: [found, sentence_uuid, position].
resolve_token_addr(token_addr) ==
    IF Len(token_addr) < 2 \/ ~IsInt(token_addr[Len(token_addr)])
    THEN [found |-> FALSE, sentence_uuid |-> Null, position |-> 0]
    ELSE [found |-> TRUE, sentence_uuid |-> SubSeq(token_addr, 1, Len(token_addr) - 1),
          position |-> IntOf(token_addr[Len(token_addr)])]

\* get_token_info: [found, text, sentence_uuid, position].
get_token_info(token_addr) ==
    LET r == resolve_token_addr(token_addr)
        hit == { t \in tokens : \E m \in sentence_token_map :
                    /\ m.token_id = t.id
                    /\ m.sentence_uuid = r.sentence_uuid
                    /\ m.position = r.position }
        none == [found |-> FALSE, text |-> "", sentence_uuid |-> Null, position |-> 0]
    IN IF ~r.found \/ hit = {} \/ ~(\E s \in sentences : s.uuid = r.sentence_uuid)
       THEN none
       ELSE [found |-> TRUE, text |-> (CHOOSE t \in hit : TRUE).text,
             sentence_uuid |-> r.sentence_uuid, position |-> r.position]

\* ------------------------------------------------------------ AddressManager
\* parent_addr of create_address: the address without its last '-' part.
ParentAddr(addr) == IF Len(addr) > 1 THEN SubSeq(addr, 1, Len(addr) - 1) ELSE Null

AddrExists(book, addr) == \E r \in book : r.addr = addr

\* A plain SET column = ?.
Overwrite(new, old, none) == new

\* COALESCE(?, column)
Coalesce(new, old, none) == IF new # none THEN new ELSE old

\* Whether create_address creates the parent first: `if parent_addr:` and the
\* SELECT that finds no row for it.
ParentMissing(book, parent_addr) == Truthy(parent_addr) /\ ~AddrExists(book, parent_addr)

\* A plain INSERT OR REPLACE of the row of addr.
ReplaceAddress(book, addr, uuid_value, addr_type, zero_index) ==
    { r \in book : r.addr # addr }
        \cup { [addr |-> addr, uuid |-> uuid_value, type |-> addr_type,
                parent_addr |-> ParentAddr(addr), zero_index |-> zero_index] }

\* create_address: the address book after the call.
RECURSIVE create_address(_, _, _, _, _)
create_address(book, addr, uuid_value, addr_type, zero_index) ==
    LET parent_addr == ParentAddr(addr)
    IN IF AddrExists(book, addr)
       THEN { IF r.addr = addr
              THEN [r EXCEPT !.uuid = Coalesce(uuid_value, r.uuid, Null),
                             !.type = Coalesce(addr_type, r.type, NoType),
                             !.zero_index = zero_index]
              ELSE r : r \in book }
       ELSE LET withParent == IF ParentMissing(book, parent_addr)
                              THEN create_address(book, parent_addr, Null, addr_type, 0)
                              ELSE book
            IN withParent \cup { [addr |-> addr, uuid |-> uuid_value, type |-> addr_type,
                                   parent_addr |-> parent_addr, zero_index |-> zero_index] }

\* get_address: the rows for addr (at most one).
get_address(addr) == { r \in address_book : r.addr = addr }

\* The two halves of addr.split("."), for an address that ends in
\* "<last uuid group>.<position>".
HasDot(addr) == addr[Len(addr)][1] = "dot"
BeforeDot(addr) == SubSeq(addr, 1, Len(addr) - 1) \o << <<"hex", 5>> >>
AfterDot(addr) == <<"dec", addr[Len(addr)][2]>>

\* resolve_address(addr) without relative_to:
\* [outcome, uuid, type, has_content, content, sentence_uuid, position].
NoInfo(outcome) ==
    [outcome |-> outcome, uuid |-> Null, type |-> NoType, has_content |-> FALSE,
     content |-> << >>, sentence_uuid |-> Null, position |-> 0]
resolve_address(addr) ==
    LET rows == get_address(addr)
    IN IF rows = {}
       THEN LET m == map_addr_to_uuid(addr)
            IN IF m.raised THEN NoInfo("ValueError")
               ELSE IF Truthy(m.uuid) /\ get_sentence_info(m.uuid).found
                    THEN [NoInfo("ok") EXCEPT !.uuid = m.uuid, !.type = "sentence",
                             !.has_content = TRUE,
                             !.content = get_sentence_info(m.uuid).text]
                    ELSE NoInfo("AddressNotFound")
       ELSE LET row == CHOOSE r \in rows : TRUE
                base == [NoInfo("ok") EXCEPT !.uuid = row.uuid, !.type = row.type]
            IN IF row.type = "sentence" /\ Truthy(row.uuid)
               THEN LET si == get_sentence_info(row.uuid)
                    IN IF si.found
                       THEN [base EXCEPT !.has_content = TRUE, !.content = si.text]
                       ELSE base
               ELSE IF row.type = "token" /\ Truthy(row.uuid)
               THEN IF HasDot(addr)
                    THEN LET m == map_addr_to_uuid(BeforeDot(addr))
                             ti == get_token_info(
                                       get_token_addr(m.uuid, IntOf(AfterDot(addr))))
                         IN IF ~m.raised /\ Truthy(m.uuid) /\ ti.found
                            THEN [base EXCEPT !.has_content = TRUE,
                                     !.content = << ti.text >>,
                                     !.sentence_uuid = m.uuid,
                                     !.position = IntOf(AfterDot(addr))]
                            ELSE base
                    ELSE IF Len(row.uuid) > 1
                    THEN LET ti == get_token_info(row.uuid)
                         IN IF ti.found
                            THEN [base EXCEPT !.has_content = TRUE,
                                     !.content = << ti.text >>,
                                     !.sentence_uuid = ti.sentence_uuid,
                                     !.position = ti.position]
                            ELSE base
                    ELSE base
               ELSE base

\* SELECT relation_type FROM relations WHERE source_uuid = ? AND target_uuid = ?
RelationTypes(source_uuid, target_uuid) ==
    { e.relation_type : e \in { x \in relations.rows :
                                  x.source_uuid = source_uuid /\ x.target_uuid = target_uuid } }

\* resolve_address(addr, relative_to): [outcome, forward, backward].  An
\* address found through the zero-index mapper returns before relative_to is
\* looked at; the two SELECTs need the relations table.
resolve_relative(addr, relative_to) ==
    LET a == resolve_address(addr)
        r == resolve_address(relative_to)
        none == [outcome |-> "ok", forward |-> {}, backward |-> {}]
    IN IF a.outcome # "ok" THEN [none EXCEPT !.outcome = a.outcome]
       ELSE IF get_address(addr) = {} THEN none
       ELSE IF r.outcome # "ok" THEN [none EXCEPT !.outcome = r.outcome]
       ELSE IF a.type = "sentence" /\ r.type = "sentence" /\ Truthy(a.uuid) /\ Truthy(r.uuid)
       THEN IF ~relations.exists THEN [none EXCEPT !.outcome = "OperationalError"]
            ELSE [outcome |-> "ok", forward |-> RelationTypes(r.uuid, a.uuid),
                  backward |-> RelationTypes(a.uuid, r.uuid)]
       ELSE none

\* INSERT OR REPLACE INTO relations under UNIQUE(source, target, type).
InsertOrReplaceRelation(rows, edge) == (rows \ {edge}) \cup {edge}

\* set_relation: [outcome, relations]; outcome is "True", "False" or the
\* "ValueError" that map_addr_to_uuid lets escape.
set_relation(source_addr, target_addr, relation_type) ==
    LET src == map_addr_to_uuid(source_addr)
        tgt == map_addr_to_uuid(target_addr)
    IN IF src.raised \/ (~src.raised /\ tgt.raised)
       THEN [outcome |-> "ValueError", relations |-> relations]
       ELSE IF ~Truthy(src.uuid) \/ ~Truthy(tgt.uuid)
       THEN [outcome |-> "False", relations |-> relations]
       ELSE [outcome |-> "True",
             relations |-> [exists |-> TRUE,
                            rows |-> InsertOrReplaceRelation(relations.rows,
                                        [source_uuid |-> src.uuid, target_uuid |-> tgt.uuid,
                                         relation_type |-> relation_type])]]

\* ----------------------------------------------------------- FunctionService
\* _cell_to_addr: f"doc:current_document-{row - 1}" for the cell of a row;
\* row 0 gives "doc:current_document--1", whose parts are the document, an
\* empty string and "1".
CellRows == {0, 1}
cell_to_addr(row) ==
    IF row - 1 >= 0
    THEN << <<"doclit", 0>>, <<"dec", row - 1>> >>
    ELSE << <<"doclit", 0>>, EmptySeg, <<"dec", 1 - row>> >>

\* The edges from source_uuid, of one type or (rel_type = NoType) of all.
EdgesFrom(source_uuid, rel_type) ==
    { e \in relations.rows :
        e.source_uuid = source_uuid /\ (rel_type # NoType => e.relation_type = rel_type) }

\* The rows of sentences JOIN relations ON uuid = target_uuid for a source
\* and a type.
RelatedRows(source_uuid, rel_type) ==
    { <<t, e>> \in sentences \X EdgesFrom(source_uuid, rel_type) : t.uuid = e.target_uuid }

\* _rel_function: [outcome, found, text]; found FALSE is the None result.
rel_function(source_addr, rel_type) ==
    LET m == map_addr_to_uuid(source_addr)
    IN IF m.raised THEN [outcome |-> "ValueError", found |-> FALSE, text |-> << >>]
       ELSE IF ~Truthy(m.uuid) THEN [outcome |-> "ok", found |-> FALSE, text |-> << >>]
       ELSE IF ~relations.exists
       THEN [outcome |-> "OperationalError", found |-> FALSE, text |-> << >>]
       ELSE IF RelatedRows(m.uuid, rel_type) = {}
       THEN [outcome |-> "ok", found |-> FALSE, text |-> << >>]
       ELSE [outcome |-> "ok", found |-> TRUE,
             text |-> (CHOOSE r \in RelatedRows(m.uuid, rel_type) : TRUE)[1].text]

\* _rel_all_function: [outcome, count]; count is the length of the list.
rel_all_function(source_addr, rel_type) ==
    LET m == map_addr_to_uuid(source_addr)
    IN IF m.raised THEN [outcome |-> "ValueError", count |-> 0]
       ELSE IF ~Truthy(m.uuid) THEN [outcome |-> "ok", count |-> 0]
       ELSE IF ~relations.exists THEN [outcome |-> "OperationalError", count |-> 0]
       ELSE [outcome |-> "ok", count |-> Cardinality(RelatedRows(m.uuid, rel_type))]

\* _rel_count_function: [outcome, count]; rel_type = NoType counts all types.
rel_count_function(source_addr, rel_type) ==
    LET m == map_addr_to_uuid(source_addr)
    IN IF m.raised THEN [outcome |-> "ValueError", count |-> 0]
       ELSE IF ~Truthy(m.uuid) THEN [outcome |-> "ok", count |-> 0]
       ELSE IF ~relations.exists THEN [outcome |-> "OperationalError", count |-> 0]
       ELSE [outcome |-> "ok", count |-> Cardinality(EdgesFrom(m.uuid, rel_type))]

\* _uuid_function: [outcome, uuid]; a Null uuid is the None result.
uuid_function(addr) ==
    [outcome |-> IF map_addr_to_uuid(addr).raised THEN "ValueError" ELSE "ok",
     uuid |-> map_addr_to_uuid(addr).uuid]

\* ------------------------------------------------ DocumentManager.process_document
\* relLast: the last set_relation call since the last document began.
NoRel ==
    [called |-> FALSE, source_addr |-> Null, target_addr |-> Null, relation_type |-> "",
     outcome |-> "", times |-> 0, changed |-> FALSE]

IdleLoc ==
    [content |-> << >>, sents |-> << >>, doc_uuid |-> Null, position |-> 0,
     sentence_uuid |-> Null, is_new |-> FALSE, tokpos |-> 0, outcome |-> "none"]

Sentence(p) == loc[p].sents[loc[p].position + 1]

\* The UNIQUE(dbidL, dbidS) constraint of table documents.
DocumentsAccepts(dbidL, dbidS) ==
    ~\E d \in documents : d.dbidL = dbidL /\ d.dbidS = dbidS

\* Lines 131-151: draw the uuid, insert the documents row, split the content.
Begin(p) ==
    /\ pc[p] = "idle"
    /\ docsStarted < MaxDocs
    /\ concurrent \/ (p = "p1" /\ \A q \in Procs : pc[q] = "idle")
    /\ \E req \in Requests, g2 \in SecondGroups :
         LET content == req.content
             dbidL == req.dbidL
             doc_uuid == Uuid4(nextId, g2)
             short == IF req.dbidS = NoShort THEN <<"first8", nextId>> ELSE req.dbidS
             sents == split_into_sentences(content)
         IN /\ nextId' = nextId + 1
            /\ docsStarted' = docsStarted + 1
            /\ IF DocumentsAccepts(dbidL, short)
               THEN /\ documents' = documents \cup
                          { [uuid |-> doc_uuid, dbidL |-> dbidL, dbidS |-> short] }
                    /\ pc' = [pc EXCEPT ![p] = IF sents = << >> THEN "h5doc" ELSE "select"]
                    /\ loc' = [loc EXCEPT ![p] =
                                 [IdleLoc EXCEPT !.content = content, !.sents = sents,
                                                 !.doc_uuid = doc_uuid,
                                                 !.outcome = "running"]]
               ELSE /\ documents' = documents
                    /\ pc' = pc
                    /\ loc' = [loc EXCEPT ![p] =
                                 [IdleLoc EXCEPT !.content = content,
                                                 !.doc_uuid = doc_uuid,
                                                 !.outcome = "IntegrityError"]]
    /\ relLast' = NoRel
    /\ UNCHANGED lsVars
    /\ UNCHANGED fsVars
    /\ UNCHANGED <<addrLast, sentence_embedding, addrPc, addrLoc>>
    /\ UNCHANGED <<sentences, doc_sentence_map, tokens, sentence_token_map, address_book,
                   relations, hdf5, concurrent, completed, retLog, addrLog, addrCalls>>

\* What _get_or_create_sentence returns is recorded with whether it is the
\* first return for that text.
Returned(text, uuid, is_new) ==
    retLog \cup { [text |-> text, uuid |-> uuid, is_new |-> is_new,
                   first |-> ~\E r \in retLog : r.text = text] }

\* Lines 235-247: the SELECT by hash, and the return of an existing uuid.
Select(p) ==
    /\ pc[p] = "select"
    /\ LET found == SentenceByHash(Sha256(Sentence(p)))
       IN IF found # {}
          THEN LET uuid == (CHOOSE s \in found : TRUE).uuid
               IN /\ loc' = [loc EXCEPT ![p].sentence_uuid = uuid, ![p].is_new = FALSE]
                  /\ retLog' = Returned(Sentence(p), uuid, FALSE)
                  /\ pc' = [pc EXCEPT ![p] = "map"]
          ELSE /\ pc' = [pc EXCEPT ![p] = "insert"]
               /\ UNCHANGED <<loc, retLog>>
    /\ UNCHANGED lsVars
    /\ UNCHANGED fsVars
    /\ UNCHANGED <<addrLast, sentence_embedding, addrPc, addrLoc>>
    /\ UNCHANGED <<documents, sentences, doc_sentence_map, tokens, sentence_token_map,
                   address_book, relations, hdf5, nextId, docsStarted, concurrent,
                   completed, relLast, addrLog, addrCalls>>

\* Lines 249-255: draw a uuid, INSERT the row, commit.  A row the table's
\* UNIQUE constraints reject raises sqlite3.IntegrityError, which nothing
\* catches: process_document ends with it.
Insert(p) ==
    /\ pc[p] = "insert"
    /\ \E g2 \in SecondGroups :
         LET row == [uuid |-> Uuid4(nextId, g2), text |-> Sentence(p),
                     hash |-> Sha256(Sentence(p))]
         IN /\ nextId' = nextId + 1
            /\ IF SentencesAccepts(row)
               THEN /\ sentences' = sentences \cup {row}
                    /\ loc' = [loc EXCEPT ![p].sentence_uuid = row.uuid]
                    /\ pc' = [pc EXCEPT ![p] = "h5sent"]
               ELSE /\ sentences' = sentences
                    /\ loc' = [loc EXCEPT ![p].outcome = "IntegrityError"]
                    /\ pc' = [pc EXCEPT ![p] = "idle"]
    /\ UNCHANGED lsVars
    /\ UNCHANGED fsVars
    /\ UNCHANGED <<addrLast, sentence_embedding, addrPc, addrLoc>>
    /\ UNCHANGED <<documents, doc_sentence_map, tokens, sentence_token_map, address_book,
                   relations, hdf5, docsStarted, concurrent, completed, retLog, relLast,
                   addrLog, addrCalls>>

\* Lines 257-267: the sentence's HDF5 group, and the return (uuid, True).
H5Sentence(p) ==
    /\ pc[p] = "h5sent"
    /\ hdf5' = hdf5 \cup { <<"sentences", loc[p].sentence_uuid>> }
    /\ loc' = [loc EXCEPT ![p].is_new = TRUE]
    /\ retLog' = Returned(Sentence(p), loc[p].sentence_uuid, TRUE)
    /\ pc' = [pc EXCEPT ![p] = "map"]
    /\ UNCHANGED lsVars
    /\ UNCHANGED fsVars
    /\ UNCHANGED <<addrLast, sentence_embedding, addrPc, addrLoc>>
    /\ UNCHANGED <<documents, sentences, doc_sentence_map, tokens, sentence_token_map,
                   address_book, relations, nextId, docsStarted, concurrent, completed,
                   relLast, addrLog, addrCalls>>

\* Lines 257-265 when h5py raises (the file cannot be opened or written): the
\* exception leaves _get_or_create_sentence and process_document.
H5SentenceFails(p) ==
    /\ pc[p] = "h5sent"
    /\ loc' = [loc EXCEPT ![p].outcome = "OSError"]
    /\ pc' = [pc EXCEPT ![p] = "idle"]
    /\ UNCHANGED lsVars
    /\ UNCHANGED fsVars
    /\ UNCHANGED <<addrLast, sentence_embedding, addrPc, addrLoc>>
    /\ UNCHANGED <<documents, sentences, doc_sentence_map, tokens, sentence_token_map,
                   address_book, relations, hdf5, nextId, docsStarted, concurrent,
                   completed, retLog, relLast, addrLog, addrCalls>>

\* Line 158: _map_sentence_to_document.
MapSentence(p) ==
    /\ pc[p] = "map"
    /\ doc_sentence_map' =
           map_sentence_to_document(loc[p].sentence_uuid, loc[p].doc_uuid, loc[p].position)
    /\ pc' = [pc EXCEPT ![p] = "addr"]
    /\ UNCHANGED lsVars
    /\ UNCHANGED fsVars
    /\ UNCHANGED <<addrLast, sentence_embedding, addrPc, addrLoc>>
    /\ UNCHANGED <<documents, sentences, tokens, sentence_token_map, address_book,
                   relations, hdf5, nextId, docsStarted, concurrent, loc, completed,
                   retLog, relLast, addrLog, addrCalls>>

\* The place after the work on one sentence: the next sentence, or the
\* document's HDF5 group.
AfterSentence(p) == IF loc[p].position + 1 < Len(loc[p].sents) THEN "select" ELSE "h5doc"

\* Lines 160-167: the address of the occurrence; tokens only for a new sentence.
AddressSentence(p) ==
    /\ pc[p] = "addr"
    /\ address_book' = create_address(address_book,
                           DocAddr(loc[p].doc_uuid, loc[p].position),
                           loc[p].sentence_uuid, "sentence", 0)
    /\ IF loc[p].is_new /\ tokenize_sentence(Sentence(p)) # << >>
       THEN /\ pc' = [pc EXCEPT ![p] = "tokens"]
            /\ loc' = [loc EXCEPT ![p].tokpos = 0]
       ELSE /\ pc' = [pc EXCEPT ![p] = AfterSentence(p)]
            /\ loc' = [loc EXCEPT ![p].position =
                          IF AfterSentence(p) = "select" THEN @ + 1 ELSE @]
    /\ UNCHANGED lsVars
    /\ UNCHANGED fsVars
    /\ UNCHANGED <<addrLast, sentence_embedding, addrPc, addrLoc>>
    /\ UNCHANGED <<documents, sentences, doc_sentence_map, tokens, sentence_token_map,
                   relations, hdf5, nextId, docsStarted, concurrent, completed, retLog,
                   relLast, addrLog, addrCalls>>

\* Lines 302-336: one turn of the loop of _process_sentence_tokens.
Token(p) ==
    /\ pc[p] = "tokens"
    /\ LET toks == tokenize_sentence(Sentence(p))
           position == loc[p].tokpos
           got == get_or_create_token(tokens, toks[position + 1])
           token_addr == get_token_addr(loc[p].sentence_uuid, position)
           dotted == SubSeq(loc[p].sentence_uuid, 1, 4) \o << <<"dot", position>> >>
       IN /\ tokens' = got.tokens
          /\ sentence_token_map' = map_token_to_sentence(sentence_token_map, got.id,
                                       loc[p].sentence_uuid, position)
          /\ address_book' = create_address(address_book, dotted, token_addr, "token",
                                            position)
          /\ hdf5' = hdf5 \cup { <<"tokens", token_addr>> }
          /\ IF position + 1 < Len(toks)
             THEN /\ loc' = [loc EXCEPT ![p].tokpos = position + 1]
                  /\ pc' = pc
             ELSE /\ pc' = [pc EXCEPT ![p] = AfterSentence(p)]
                  /\ loc' = [loc EXCEPT ![p].position =
                                IF AfterSentence(p) = "select" THEN @ + 1 ELSE @]
    /\ UNCHANGED lsVars
    /\ UNCHANGED fsVars
    /\ UNCHANGED <<addrLast, sentence_embedding, addrPc, addrLoc>>
    /\ UNCHANGED <<documents, sentences, doc_sentence_map, relations, nextId, docsStarted,
                   concurrent, completed, retLog, relLast, addrLog, addrCalls>>

\* Lines 178-204: the document's HDF5 group, and the return.
H5Document(p) ==
    /\ pc[p] = "h5doc"
    /\ hdf5' = hdf5 \cup { <<"documents", loc[p].doc_uuid>> }
    /\ completed' = completed \cup { [doc_uuid |-> loc[p].doc_uuid, sents |-> loc[p].sents] }
    /\ loc' = [loc EXCEPT ![p].outcome = "ok"]
    /\ pc' = [pc EXCEPT ![p] = "idle"]
    /\ UNCHANGED lsVars
    /\ UNCHANGED fsVars
    /\ UNCHANGED <<addrLast, sentence_embedding, addrPc, addrLoc>>
    /\ UNCHANGED <<documents, sentences, doc_sentence_map, tokens, sentence_token_map,
                   address_book, relations, nextId, docsStarted, concurrent, retLog,
                   relLast, addrLog, addrCalls>>

ProcessDocument(p) ==
    \/ Begin(p) \/ Select(p) \/ Insert(p) \/ H5Sentence(p) \/ MapSentence(p)
    \/ AddressSentence(p) \/ Token(p) \/ H5Document(p)

\* --------------------------------------------------------- relations (service)
\* Addresses that name nothing: "doc:<unknown>-0" and "a-b".
UnknownAddrs == { << <<"docg", 0>>, <<"dec", 0>> >>, << <<"lit", 0>>, <<"lit", 1>> >> }

\* The registered addresses of sentence occurrences.
SentenceAddrs == { r.addr : r \in { x \in address_book :
                                      x.type = "sentence" /\ Truthy(x.uuid) } }

\* AddressManager.set_relation, called through the service between operations.
\* Between two documents the model follows one call and its repetition.
SetRelation ==
    /\ \A p \in Procs : pc[p] = "idle"
    /\ relLast.times < 2
    /\ \E source_addr \in SentenceAddrs \cup UnknownAddrs,
          target_addr \in SentenceAddrs \cup UnknownAddrs,
          relation_type \in RelTypes :
         LET r == set_relation(source_addr, target_addr, relation_type)
             same == /\ relLast.called
                     /\ relLast.source_addr = source_addr
                     /\ relLast.target_addr = target_addr
                     /\ relLast.relation_type = relation_type
         IN /\ relLast.called => same
            /\ relations' = r.relations
            /\ relLast' = [called |-> TRUE, source_addr |-> source_addr,
                           target_addr |-> target_addr, relation_type |-> relation_type,
                           outcome |-> r.outcome,
                           times |-> IF same THEN 2 ELSE 1,
                           changed |-> r.relations # relations]
    /\ UNCHANGED lsVars
    /\ UNCHANGED fsVars
    /\ UNCHANGED <<addrLast, sentence_embedding, addrPc, addrLoc>>
    /\ UNCHANGED <<documents, sentences, doc_sentence_map, tokens, sentence_token_map,
                   address_book, hdf5, nextId, docsStarted, concurrent, pc, loc,
                   completed, retLog, addrLog, addrCalls>>

\* ------------------------------------------------------------ LStableManager
NoFile == [exists |-> FALSE, lines |-> << >>]
LsIdle ==
    [op |-> "none", dbidL |-> NoneStr, dbidS |-> NoneStr, mapping |-> << >>,
     lines |-> << >>, found |-> FALSE, outcome |-> "none", ret |-> << >>]

\* A lookup that finds nothing.
ExistingByNone(dbidL) == {}

\* A table without constraints.
LstableAcceptsAll(row) == TRUE

\* SELECT dbidS FROM lstable WHERE dbidL = ?
ExistingByLong(dbidL) == { r \in lstable : r.dbidL = dbidL }
\* SELECT dbidL FROM lstable WHERE dbidS = ?
ExistingByShort(dbidS) == { r \in lstable : r.dbidS = dbidS }

\* dbidL PRIMARY KEY and dbidS UNIQUE: whether the table accepts the row.
LstableAccepts(row) ==
    \A r \in lstable : r.dbidL # row.dbidL /\ r.dbidS # row.dbidS

\* The characters of a long id.
Chars(dbidL) ==
    CASE dbidL = "L1" -> <<"L", "1">>
      [] dbidL = "L2" -> <<"L", "2">>
      [] dbidL = "L1=x" -> <<"L", "1", "=", "x">>

\* f"{dbidL}={dbidS}": the text of the line <<dbidL, dbidS>>; a short id is
\* one symbol without "=".
LineText(line) == Chars(line[1]) \o <<"=", line[2]>>

\* line.strip().startswith(f"{dbidL}=")
StartsWith(line, dbidL) ==
    LET prefix == Chars(dbidL) \o <<"=">>
    IN /\ Len(prefix) <= Len(LineText(line))
       /\ SubSeq(LineText(line), 1, Len(prefix)) = prefix

\* The index of the first line that starts with "<dbidL>=", or 0.
FirstLineOf(lines, dbidL) ==
    IF \E i \in DOMAIN lines : StartsWith(lines[i], dbidL)
    THEN CHOOSE i \in DOMAIN lines :
             /\ StartsWith(lines[i], dbidL)
             /\ \A j \in DOMAIN lines : StartsWith(lines[j], dbidL) => i <= j
    ELSE 0

\* The lines _update_lstable_file writes: the first line of dbidL replaced,
\* or the mapping appended.
UpdatedLines(lines, dbidL, dbidS) ==
    IF FirstLineOf(lines, dbidL) # 0
    THEN [lines EXCEPT ![FirstLineOf(lines, dbidL)] = <<dbidL, dbidS>>]
    ELSE Append(lines, <<dbidL, dbidS>>)

\* The lines _remove_from_lstable_file writes.
RemovedLines(lines, dbidL) == SelectSeq(lines, LAMBDA line : ~StartsWith(line, dbidL))

\* Lines 50-52: register_mapping is called; a missing short id is generated.
LsRegister(p) ==
    /\ lsPc[p] = "idle"
    /\ lsCalls < MaxLsCalls
    /\ \E dbidL \in LongIds, dbidS \in ExplicitShorts \cup {NoneStr}, gen \in GenShorts :
         lsLoc' = [lsLoc EXCEPT ![p] =
                      [LsIdle EXCEPT !.op = "register", !.dbidL = dbidL,
                                     !.dbidS = IF dbidS = NoneStr THEN gen ELSE dbidS]]
    /\ lsPc' = [lsPc EXCEPT ![p] = "checkL"]
    /\ lsCalls' = lsCalls + 1
    /\ UNCHANGED <<lstable, perFile, globalFile>>
    /\ UNCHANGED mainVars

\* Lines 54-60: the long id is looked up; an existing mapping is returned.
LsCheckLong(p) ==
    /\ lsPc[p] = "checkL"
    /\ LET existing == ExistingByLong(lsLoc[p].dbidL)
       IN IF existing # {}
          THEN /\ lsLoc' = [lsLoc EXCEPT ![p].outcome = "ok",
                               ![p].ret = <<lsLoc[p].dbidL, (CHOOSE r \in existing : TRUE).dbidS>>]
               /\ lsPc' = [lsPc EXCEPT ![p] = "idle"]
          ELSE /\ lsLoc' = lsLoc
               /\ lsPc' = [lsPc EXCEPT ![p] = "checkS"]
    /\ UNCHANGED <<lstable, perFile, globalFile, lsCalls>>
    /\ UNCHANGED mainVars

\* Lines 62-64: the short id is looked up.
LsCheckShort(p) ==
    /\ lsPc[p] = "checkS"
    /\ lsPc' = [lsPc EXCEPT ![p] =
                   IF ExistingByShort(lsLoc[p].dbidS) # {} THEN "regen" ELSE "insert"]
    /\ UNCHANGED <<lstable, perFile, globalFile, lsLoc, lsCalls>>
    /\ UNCHANGED mainVars

\* Lines 66-71: one turn of the loop that draws another short id.
LsRegenerate(p) ==
    /\ lsPc[p] = "regen"
    /\ \E new_dbidS \in GenShorts :
         IF ExistingByShort(new_dbidS) = {}
         THEN /\ lsLoc' = [lsLoc EXCEPT ![p].dbidS = new_dbidS]
              /\ lsPc' = [lsPc EXCEPT ![p] = "insert"]
         ELSE UNCHANGED <<lsLoc, lsPc>>
    /\ UNCHANGED <<lstable, perFile, globalFile, lsCalls>>
    /\ UNCHANGED mainVars

\* Lines 73-78: INSERT and commit; a constraint violation ends the call.
LsInsert(p) ==
    /\ lsPc[p] = "insert"
    /\ LET row == [dbidL |-> lsLoc[p].dbidL, dbidS |-> lsLoc[p].dbidS]
       IN IF LstableAccepts(row)
          THEN /\ lstable' = lstable \cup {row}
               /\ lsLoc' = lsLoc
               /\ lsPc' = [lsPc EXCEPT ![p] = "readL"]
          ELSE /\ lstable' = lstable
               /\ lsLoc' = [lsLoc EXCEPT ![p].outcome = "IntegrityError"]
               /\ lsPc' = [lsPc EXCEPT ![p] = "idle"]
    /\ UNCHANGED <<perFile, globalFile, lsCalls>>
    /\ UNCHANGED mainVars

\* delete_mapping is called with a long id or with a short id.
LsDelete(p) ==
    /\ lsPc[p] = "idle"
    /\ lsCalls < MaxLsCalls
    /\ \/ \E dbidL \in LongIds :
            lsLoc' = [lsLoc EXCEPT ![p] = [LsIdle EXCEPT !.op = "delete", !.dbidL = dbidL]]
       \/ \E dbidS \in ExplicitShorts :
            lsLoc' = [lsLoc EXCEPT ![p] = [LsIdle EXCEPT !.op = "delete", !.dbidS = dbidS]]
    /\ lsPc' = [lsPc EXCEPT ![p] = "getmap"]
    /\ lsCalls' = lsCalls + 1
    /\ UNCHANGED <<lstable, perFile, globalFile>>
    /\ UNCHANGED mainVars

\* get_mapping: by dbidL when it is given, else by dbidS.
get_mapping(dbidL, dbidS) ==
    IF dbidL # NoneStr THEN ExistingByLong(dbidL) ELSE ExistingByShort(dbidS)

\* Lines 158-160 of delete_mapping: the lookup; False when nothing is found.
LsGetMapping(p) ==
    /\ lsPc[p] = "getmap"
    /\ LET found == get_mapping(lsLoc[p].dbidL, lsLoc[p].dbidS)
       IN IF found = {}
          THEN /\ lsLoc' = [lsLoc EXCEPT ![p].outcome = "False"]
               /\ lsPc' = [lsPc EXCEPT ![p] = "idle"]
          ELSE /\ lsLoc' = [lsLoc EXCEPT ![p].mapping = << CHOOSE r \in found : TRUE >>]
               /\ lsPc' = [lsPc EXCEPT ![p] = "delrow"]
    /\ UNCHANGED <<lstable, perFile, globalFile, lsCalls>>
    /\ UNCHANGED mainVars

\* Lines 162-167: DELETE by the key the caller gave, and commit.  From here
\* the files are treated under the long id of the mapping that was read.
LsDeleteRow(p) ==
    /\ lsPc[p] = "delrow"
    /\ lstable' = IF lsLoc[p].dbidL # NoneStr
                  THEN lstable \ ExistingByLong(lsLoc[p].dbidL)
                  ELSE lstable \ ExistingByShort(lsLoc[p].dbidS)
    /\ lsLoc' = [lsLoc EXCEPT ![p].dbidL = lsLoc[p].mapping[1].dbidL,
                              ![p].dbidS = lsLoc[p].mapping[1].dbidS]
    /\ lsPc' = [lsPc EXCEPT ![p] = "readL"]
    /\ UNCHANGED <<perFile, globalFile, lsCalls>>
    /\ UNCHANGED mainVars

\* The lines a call writes back to a file it has read.
LinesToWrite(p) ==
    IF lsLoc[p].op = "register"
    THEN UpdatedLines(lsLoc[p].lines, lsLoc[p].dbidL, lsLoc[p].dbidS)
    ELSE RemovedLines(lsLoc[p].lines, lsLoc[p].dbidL)

\* Whether the call rewrites a file: always when registering, and when
\* removing only if the file existed.
Rewrites(p) == lsLoc[p].op = "register" \/ lsLoc[p].found

\* The per-collection file is read in full (an absent file reads as no lines).
LsReadFile(p) ==
    /\ lsPc[p] = "readL"
    /\ lsLoc' = [lsLoc EXCEPT ![p].lines = perFile[lsLoc[p].dbidL].lines,
                              ![p].found = perFile[lsLoc[p].dbidL].exists]
    /\ lsPc' = [lsPc EXCEPT ![p] = "writeL"]
    /\ UNCHANGED <<lstable, perFile, globalFile, lsCalls>>
    /\ UNCHANGED mainVars

\* The per-collection file is rewritten.
LsWriteFile(p) ==
    /\ lsPc[p] = "writeL"
    /\ perFile' = IF Rewrites(p)
                  THEN [perFile EXCEPT ![lsLoc[p].dbidL] =
                           [exists |-> TRUE, lines |-> LinesToWrite(p)]]
                  ELSE perFile
    /\ lsLoc' = [lsLoc EXCEPT ![p].lines = << >>, ![p].found = FALSE]
    /\ lsPc' = [lsPc EXCEPT ![p] = "readG"]
    /\ UNCHANGED <<lstable, globalFile, lsCalls>>
    /\ UNCHANGED mainVars

\* The global file is read in full.
LsReadGlobal(p) ==
    /\ lsPc[p] = "readG"
    /\ lsLoc' = [lsLoc EXCEPT ![p].lines = globalFile.lines, ![p].found = globalFile.exists]
    /\ lsPc' = [lsPc EXCEPT ![p] = "writeG"]
    /\ UNCHANGED <<lstable, perFile, globalFile, lsCalls>>
    /\ UNCHANGED mainVars

\* The global file is rewritten, and the call returns.
LsWriteGlobal(p) ==
    /\ lsPc[p] = "writeG"
    /\ globalFile' = IF Rewrites(p)
                     THEN [exists |-> TRUE, lines |-> LinesToWrite(p)]
                     ELSE globalFile
    /\ lsLoc' = [lsLoc EXCEPT ![p].lines = << >>, ![p].found = FALSE,
                              ![p].outcome = IF lsLoc[p].op = "register" THEN "ok" ELSE "True",
                              ![p].ret = IF lsLoc[p].op = "register"
                                         THEN <<lsLoc[p].dbidL, lsLoc[p].dbidS>> ELSE << >>]
    /\ lsPc' = [lsPc EXCEPT ![p] = "idle"]
    /\ UNCHANGED <<lstable, perFile, lsCalls>>
    /\ UNCHANGED mainVars

LStable(p) ==
    \/ LsRegister(p) \/ LsCheckLong(p) \/ LsCheckShort(p) \/ LsRegenerate(p) \/ LsInsert(p)
    \/ LsDelete(p) \/ LsGetMapping(p) \/ LsDeleteRow(p)
    \/ LsReadFile(p) \/ LsWriteFile(p) \/ LsReadGlobal(p) \/ LsWriteGlobal(p)

\* ------------------------------------------------------------ specifications
\* --------------------------------------------------- the formula parser
\* The characters of an argument: "dq" is the double quote, "nl" a line break.
ArgChars == {"a", " ", ",", "(", ")", "dq", "nl"}
Whitespace == {" ", "nl"}
MaxArgLen == 3
MaxArgs == 2

\* str.strip()
RECURSIVE LStrip(_)
LStrip(s) == IF s # << >> /\ Head(s) \in Whitespace THEN LStrip(Tail(s)) ELSE s
RECURSIVE RStrip(_)
RStrip(s) ==
    IF s # << >> /\ s[Len(s)] \in Whitespace THEN RStrip(SubSeq(s, 1, Len(s) - 1)) ELSE s
Strip(s) == RStrip(LStrip(s))

\* re.match(r'^(\w+(?:\.\w+)*)\((.*)\)$', formula), for a formula with the
\* name "f" that ends in ")": "." matches every character but the line break.
FormulaMatches(text) ==
    /\ Len(text) >= 3
    /\ text[1] = "f" /\ text[2] = "(" /\ text[Len(text)] = ")"
    /\ \A i \in 3..(Len(text) - 1) : text[i] # "nl"

\* The loop over args_str and the `if current_arg:` after it.
RECURSIVE ScanArgs(_, _, _, _, _)
ScanArgs(rest, in_quotes, bracket_level, current_arg, args) ==
    IF rest = << >>
    THEN IF current_arg # << >> THEN Append(args, Strip(current_arg)) ELSE args
    ELSE LET char == Head(rest)
         IN IF char = "dq"
            THEN ScanArgs(Tail(rest), ~in_quotes, bracket_level,
                          Append(current_arg, char), args)
            ELSE IF char = "(" /\ ~in_quotes
            THEN ScanArgs(Tail(rest), in_quotes, bracket_level + 1,
                          Append(current_arg, char), args)
            ELSE IF char = ")" /\ ~in_quotes
            THEN ScanArgs(Tail(rest), in_quotes, bracket_level - 1,
                          Append(current_arg, char), args)
            ELSE IF char = "," /\ ~in_quotes /\ bracket_level = 0
            THEN ScanArgs(Tail(rest), in_quotes, bracket_level, << >>,
                          Append(args, Strip(current_arg)))
            ELSE ScanArgs(Tail(rest), in_quotes, bracket_level,
                          Append(current_arg, char), args)

\* _parse_formula: [outcome, func_name, args].
parse_formula(text) ==
    LET stripped == IF text # << >> /\ Head(text) = "=" THEN Strip(Tail(text)) ELSE text
    IN IF FormulaMatches(stripped)
       THEN [outcome |-> "ok", func_name |-> "f",
             args |-> ScanArgs(SubSeq(stripped, 3, Len(stripped) - 1), FALSE, 0, << >>, << >>)]
       ELSE [outcome |-> "ValueError", func_name |-> NoneStr, args |-> << >>]

\* The formulas given: an optional "=", the name "f", and up to MaxArgs
\* arguments of up to MaxArgLen characters, joined by commas.
ArgTexts == UNION { [1..n -> ArgChars] : n \in 0..MaxArgLen }
ArgLists == UNION { [1..k -> ArgTexts] : k \in 0..MaxArgs }
RECURSIVE Join(_)
Join(args) ==
    IF args = << >> THEN << >>
    ELSE IF Len(args) = 1 THEN args[1]
    ELSE args[1] \o <<",">> \o Join(Tail(args))
FormulaText(eq, args) ==
    (IF eq THEN <<"=">> ELSE << >>) \o <<"f", "(">> \o Join(args) \o <<")">>

NoFormula == [eq |-> FALSE, args |-> << >>, given |-> FALSE]
NoParse == [outcome |-> "none", func_name |-> NoneStr, args |-> << >>]

\* FunctionService.evaluate hands one formula to _parse_formula.
ParseFormula ==
    /\ ~formula.given
    /\ \E eq \in BOOLEAN, args \in ArgLists :
         /\ formula' = [eq |-> eq, args |-> args, given |-> TRUE]
         /\ parsed' = parse_formula(FormulaText(eq, args))
    /\ UNCHANGED lsVars
    /\ UNCHANGED mainStore

\* addrLoc of a caller that has made no create_address call.
AddrIdle ==
    [addr |-> Null, uuid |-> Null, type |-> NoType, fresh |-> FALSE, outcome |-> "none"]

\* addrLast before any call.
NoCall == [addr |-> Null, uuid |-> Null, type |-> NoType]

InitStore ==
    /\ documents = {}
    /\ sentences = {}
    /\ doc_sentence_map = {}
    /\ tokens = {}
    /\ sentence_token_map = {}
    /\ address_book = {}
    /\ relations = [exists |-> FALSE, rows |-> {}]
    /\ hdf5 = {}
    /\ nextId = 1
    /\ docsStarted = 0
    /\ pc = [p \in Procs |-> "idle"]
    /\ loc = [p \in Procs |-> IdleLoc]
    /\ completed = {}
    /\ retLog = {}
    /\ relLast = NoRel
    /\ addrLog = {}
    /\ addrCalls = 0
    /\ addrLast = NoCall
    /\ sentence_embedding = {}
    /\ addrPc = [p \in Procs |-> "idle"]
    /\ addrLoc = [p \in Procs |-> AddrIdle]
    /\ formula = NoFormula
    /\ parsed = NoParse
    /\ lstable = {}
    /\ perFile = [l \in LongIds |-> NoFile]
    /\ globalFile = NoFile
    /\ lsPc = [p \in Procs |-> "idle"]
    /\ lsLoc = [p \in Procs |-> LsIdle]
    /\ lsCalls = 0

\* One caller at a time: a sequential history of service calls.
Init == InitStore /\ concurrent = FALSE
Next == ProcessDocument("p1") \/ SetRelation
Spec == Init /\ [][Next]_vars

\* Two callers at once: the steps of their process_document calls interleave
\* at the statements that read or commit to the store.
InitRace == InitStore /\ concurrent = TRUE
NextRace == \E p \in Procs : ProcessDocument(p)
SpecRace == InitRace /\ [][NextRace]_vars

\* One caller, with a blob store that may refuse a write.
NextFault == ProcessDocument("p1") \/ H5SentenceFails("p1")
SpecFault == Init /\ [][NextFault]_vars

\* ------------------------------------------------------------- embeddings
\* A well-formed sentence id that _get_or_create_sentence never drew.
UnknownSentence == Uuid4(0, <<"hex", 2>>)

\* add_embedding(uuid_value, embedding, "sentence"): the UPDATE changes the
\* row of uuid_value if there is one, and the HDF5 part creates the group
\* sentences/<uuid_value> if it is missing and writes its dataset "embedding".
AddEmbedding ==
    /\ pc["p1"] = "idle"
    /\ \E uuid_value \in { s.uuid : s \in sentences } \cup { UnknownSentence } :
         /\ sentence_embedding' =
                sentence_embedding \cup { s.uuid : s \in { t \in sentences : t.uuid = uuid_value } }
         /\ hdf5' = hdf5 \cup { <<"sentences", uuid_value>>,
                                <<"sentences", uuid_value, "embedding">> }
    /\ UNCHANGED lsVars
    /\ UNCHANGED fsVars
    /\ UNCHANGED <<documents, sentences, doc_sentence_map, tokens, sentence_token_map,
                   address_book, relations, nextId, docsStarted, concurrent, pc, loc,
                   completed, retLog, relLast, addrLog, addrCalls, addrLast, addrPc,
                   addrLoc>>

\* get_embedding(uuid_value, "sentence"): where the returned array comes
\* from, or NoneStr.
get_embedding(uuid_value) ==
    IF /\ <<"sentences", uuid_value>> \in hdf5
       /\ <<"sentences", uuid_value, "embedding">> \in hdf5
    THEN "hdf5"
    ELSE IF /\ \E s \in sentences : s.uuid = uuid_value
            /\ uuid_value \in sentence_embedding
         THEN "sqlite"
         ELSE NoneStr

\* One caller who processes documents and adds embeddings.
NextEmb == ProcessDocument("p1") \/ AddEmbedding
SpecEmb == Init /\ [][NextEmb]_vars

\* ------------------------------------------------- the address registry alone
\* "a", "a-0", "a-0-1" and "-0" (the levels ["", "0"] joined by '-').
AddrInputs == { << <<"lit", 0>> >>, << <<"lit", 0>>, <<"dec", 0>> >>,
                << <<"lit", 0>>, <<"dec", 0>>, <<"dec", 1>> >>,
                << EmptySeg, <<"dec", 0>> >> }
IdInputs == { << <<"lit", 1>> >>, << <<"lit", 2>> >> }
TypeInputs == { "sentence", "token", NoType }

\* addrLog: per address, the last non-null id it was registered with, and
\* whether a registration with a null id followed.
Logged(addr, uuid_value) ==
    IF uuid_value # Null
    THEN { e \in addrLog : e.addr # addr }
             \cup { [addr |-> addr, uuid |-> uuid_value, later_null |-> FALSE] }
    ELSE { IF e.addr = addr THEN [e EXCEPT !.later_null = TRUE] ELSE e : e \in addrLog }

\* DimensionalDirectoryService.create_address -> AddressManager.create_address.
CreateAddress ==
    /\ addrCalls < MaxAddrCalls
    /\ \E addr \in AddrInputs, uuid_value \in IdInputs \cup {Null}, addr_type \in TypeInputs :
         /\ address_book' = create_address(address_book, addr, uuid_value, addr_type, 0)
         /\ addrLog' = Logged(addr, uuid_value)
         /\ addrLast' = [addr |-> addr, uuid |-> uuid_value, type |-> addr_type]
    /\ addrCalls' = addrCalls + 1
    /\ UNCHANGED lsVars
    /\ UNCHANGED fsVars
    /\ UNCHANGED <<sentence_embedding, addrPc, addrLoc>>
    /\ UNCHANGED <<documents, sentences, doc_sentence_map, tokens, sentence_token_map,
                   relations, hdf5, nextId, docsStarted, concurrent, pc, loc, completed,
                   retLog, relLast>>

NextAddr == CreateAddress
SpecAddr == Init /\ [][NextAddr]_vars

\* ------------------------------------- create_address, two callers at once
RaceFrame ==
    /\ UNCHANGED lsVars
    /\ UNCHANGED fsVars
    /\ UNCHANGED <<documents, sentences, doc_sentence_map, tokens, sentence_token_map,
                   relations, hdf5, nextId, docsStarted, concurrent, pc, loc, completed,
                   retLog, relLast, addrLog, addrLast, sentence_embedding>>

\* create_address is called.
AddrBegin(p) ==
    /\ addrPc[p] = "idle"
    /\ addrCalls < MaxAddrCalls
    /\ \E addr \in AddrInputs, uuid_value \in IdInputs \cup {Null}, addr_type \in TypeInputs :
         addrLoc' = [addrLoc EXCEPT ![p] =
                        [addr |-> addr, uuid |-> uuid_value, type |-> addr_type,
                         fresh |-> FALSE, outcome |-> "none"]]
    /\ addrPc' = [addrPc EXCEPT ![p] = "select"]
    /\ addrCalls' = addrCalls + 1
    /\ UNCHANGED address_book
    /\ RaceFrame

\* Lines 86-99: the SELECT by addr; a row that exists is updated and the call
\* returns.  fresh records that the SELECT found no row.
AddrSelect(p) ==
    /\ addrPc[p] = "select"
    /\ IF AddrExists(address_book, addrLoc[p].addr)
       THEN /\ address_book' = create_address(address_book, addrLoc[p].addr,
                                              addrLoc[p].uuid, addrLoc[p].type, 0)
            /\ addrLoc' = [addrLoc EXCEPT ![p].outcome = "ok"]
            /\ addrPc' = [addrPc EXCEPT ![p] = "idle"]
       ELSE /\ addrLoc' = [addrLoc EXCEPT ![p].fresh = TRUE]
            /\ addrPc' = [addrPc EXCEPT ![p] = "parent"]
            /\ UNCHANGED address_book
    /\ UNCHANGED addrCalls
    /\ RaceFrame

\* Lines 101-106: the parent is looked up and, if missing, created by the
\* nested call (taken as one step).
AddrParent(p) ==
    /\ addrPc[p] = "parent"
    /\ address_book' =
           IF ParentMissing(address_book, ParentAddr(addrLoc[p].addr))
           THEN create_address(address_book, ParentAddr(addrLoc[p].addr), Null,
                               addrLoc[p].type, 0)
           ELSE address_book
    /\ addrPc' = [addrPc EXCEPT ![p] = "insert"]
    /\ UNCHANGED <<addrLoc, addrCalls>>
    /\ RaceFrame

\* Lines 108-117: the plain INSERT under addr TEXT UNIQUE, and the commit.
AddrInsert(p) ==
    /\ addrPc[p] = "insert"
    /\ IF AddrExists(address_book, addrLoc[p].addr)
       THEN /\ addrLoc' = [addrLoc EXCEPT ![p].outcome = "IntegrityError"]
            /\ UNCHANGED address_book
       ELSE /\ address_book' = address_book \cup
                { [addr |-> addrLoc[p].addr, uuid |-> addrLoc[p].uuid,
                   type |-> addrLoc[p].type, parent_addr |-> ParentAddr(addrLoc[p].addr),
                   zero_index |-> 0] }
            /\ addrLoc' = [addrLoc EXCEPT ![p].outcome = "ok"]
    /\ addrPc' = [addrPc EXCEPT ![p] = "idle"]
    /\ UNCHANGED addrCalls
    /\ RaceFrame

NextAddrRace == \E p \in Procs : AddrBegin(p) \/ AddrSelect(p) \/ AddrParent(p) \/ AddrInsert(p)
SpecAddrRace == InitRace /\ [][NextAddrRace]_vars

\* One formula is parsed.
NextParse == ParseFormula
SpecParse == Init /\ [][NextParse]_vars

\* The L-S table manager with one caller: each call returns before the next.
NextLSSeq == LStable("p1")
SpecLSSeq == Init /\ [][NextLSSeq]_vars

\* The L-S table manager, with two callers whose calls interleave.
NextLS == \E p \in Procs : LStable(p)
SpecLS == Init /\ [][NextLS]_vars

\* ------------------------------------------------------------------ claims
Quiescent == \A p \in Procs : pc[p] = "idle"

\* The rows of doc_sentence_map of one document.
OccurrencesOf(doc_uuid) == { m \in doc_sentence_map : m.doc_uuid = doc_uuid }

\* C1: in a sequential history _get_or_create_sentence returns one id per
\* text, reports is_new exactly on the first return for the text, and the
\* sentences table holds at most one row per content hash.
C1_SequentialDedup ==
    /\ \A r1, r2 \in retLog : r1.text = r2.text => r1.uuid = r2.uuid
    /\ \A r \in retLog : r.is_new <=> r.first
    /\ \A s1, s2 \in sentences : s1.hash = s2.hash => s1 = s2

\* A text was returned a second time, by a later document.
C1_Witness ==
    /\ Cardinality(completed) = 2
    /\ \E r1, r2 \in retLog : r1.text = r2.text /\ r1.first /\ ~r2.first

\* C3: a completed document of n sentences has the positions 0..n-1 in
\* doc_sentence_map, each exactly once.
C3_PositionsContiguous ==
    \A c \in completed :
        /\ { m.position : m \in OccurrencesOf(c.doc_uuid) } = 0..(Len(c.sents) - 1)
        /\ Cardinality(OccurrencesOf(c.doc_uuid)) = Len(c.sents)

\* A completed document that holds the same sentence text twice.
C3_Witness ==
    \E c \in completed : Len(c.sents) = 2 /\ c.sents[1] = c.sents[2]

\* The (document, position) occurrences of a text over the completed documents.
TextOccurrences(text) ==
    UNION { { <<c.doc_uuid, i - 1>> : i \in { j \in DOMAIN c.sents : c.sents[j] = text } } :
            c \in completed }

\* "doc:<document id>-<position>", written out.
OccurrenceAddress(d, position) ==
    << <<"docg", d[1][2]>>, d[2], d[3], d[4], d[5], <<"dec", position>> >>

AllTexts == { TextA, TextB }

\* C10: between operations, a text with k occurrences has one sentence id and
\* map_uuid_to_addr of that id returns k addresses, one per occurrence.
C10_SharedSentenceAddresses ==
    Quiescent =>
        \A text \in AllTexts :
            LET occ == TextOccurrences(text)
                rows == { s \in sentences : s.text = text }
            IN occ # {} =>
                 /\ Cardinality(rows) = 1
                 /\ LET addrs == map_uuid_to_addr((CHOOSE s \in rows : TRUE).uuid, Null)
                    IN /\ Len(addrs) = Cardinality(occ)
                       /\ { addrs[i] : i \in 1..Len(addrs) } =
                              { OccurrenceAddress(o[1], o[2]) : o \in occ }

\* A text that occurs in two documents.
C10_Witness ==
    /\ Quiescent
    /\ \E text \in AllTexts :
           Cardinality({ o[1] : o \in TextOccurrences(text) }) = 2

\* An address resolves when the registry returns a non-null id for it.
Resolves(addr) == resolve_address(addr).outcome = "ok" /\ Truthy(resolve_address(addr).uuid)

\* C6: after set_relation(x, y, t) was called twice with the same resolvable
\* addresses, relations holds exactly the one edge (id(x), id(y), t) and the
\* second call reported success.
C6_TwiceOneEdge ==
    (/\ relLast.times = 2
     /\ Resolves(relLast.source_addr)
     /\ Resolves(relLast.target_addr))
    => /\ relLast.outcome = "True"
       /\ relations.rows =
              { [source_uuid |-> resolve_address(relLast.source_addr).uuid,
                 target_uuid |-> resolve_address(relLast.target_addr).uuid,
                 relation_type |-> relLast.relation_type] }

\* C7: set_relation with an address that does not resolve reports failure
\* (returns False) and leaves the edges unchanged.
C7_UnresolvedFails ==
    (/\ relLast.called
     /\ ~Resolves(relLast.source_addr) \/ ~Resolves(relLast.target_addr))
    => /\ relLast.outcome = "False"
       /\ ~relLast.changed

\* C2: when two process_document operations race on the same new sentence
\* text, neither fails: each operation that began its sentences ends without
\* an error, with every one of its sentences recorded against the single row
\* of that text.
C2_RaceConverges ==
    \A p \in Procs :
        (pc[p] = "idle" /\ loc[p].sents # << >>) =>
            /\ loc[p].outcome = "ok"
            /\ \A i \in DOMAIN loc[p].sents :
                   \E s \in sentences :
                       /\ s.text = loc[p].sents[i]
                       /\ [doc_uuid |-> loc[p].doc_uuid, sentence_uuid |-> s.uuid,
                           position |-> i - 1] \in doc_sentence_map

\* C4: resolve_address of an address returns the id of its most recent
\* registration with a non-null id, whatever was registered since.
C4_ResolveReturnsRegistered ==
    \A e \in addrLog :
        /\ resolve_address(e.addr).outcome = "ok"
        /\ resolve_address(e.addr).uuid = e.uuid

\* An address registered with an id, then again with a null id, while
\* another address holds another id.
C4_Witness ==
    \E e1, e2 \in addrLog : e1.later_null /\ e2.addr # e1.addr /\ e2.uuid # e1.uuid

\* C5: each addr has at most one row, and every row with a non-null
\* parent_addr has a row for that parent_addr.
C5_ParentsRegistered ==
    /\ \A r1, r2 \in address_book : r1.addr = r2.addr => r1 = r2
    /\ \A r \in address_book : r.parent_addr # Null => AddrExists(address_book, r.parent_addr)

\* C8: lstable is one-to-one: no long id has two short ids and no short id
\* has two long ids.
C8_LstableOneToOne ==
    \A r1, r2 \in lstable :
        (r1.dbidL = r2.dbidL \/ r1.dbidS = r2.dbidS) => r1 = r2

\* A mapping registered by one caller stands after the other caller
\* registered and deleted another one.
C8_Witness ==
    \E p, q \in Procs :
        /\ lsPc[p] = "idle" /\ lsLoc[p].op = "delete" /\ lsLoc[p].outcome = "True"
        /\ lsPc[q] = "idle" /\ lsLoc[q].op = "register" /\ lsLoc[q].outcome = "ok"
        /\ lstable = { [dbidL |-> lsLoc[q].ret[1], dbidS |-> lsLoc[q].ret[2]] }

\* C9: the step of register_mapping(L, S2) that finds L registered with S1
\* returns (L, S1) and changes neither lstable nor either alias file.
C9_ExistingLongIsNoOp ==
    [][ \A p \in Procs :
          (/\ lsPc[p] = "checkL"
           /\ lsPc'[p] # "checkL"
           /\ \E r \in lstable : r.dbidL = lsLoc[p].dbidL)
          => /\ lsPc'[p] = "idle"
             /\ \E r \in lstable :
                    r.dbidL = lsLoc[p].dbidL /\ lsLoc'[p].ret = <<r.dbidL, r.dbidS>>
             /\ UNCHANGED <<lstable, perFile, globalFile>> ]_vars

\* A register_mapping call for a registered long id returned another short
\* id than the one it was given, with both alias files written.
C9_Witness ==
    \E p \in Procs :
        /\ lsPc[p] = "idle" /\ lsLoc[p].op = "register" /\ lsLoc[p].outcome = "ok"
        /\ lsLoc[p].ret # <<lsLoc[p].dbidL, lsLoc[p].dbidS>>
        /\ globalFile.exists
        /\ perFile[lsLoc[p].dbidL].exists

\* C11: for every registered occurrence address, rel.count without a type
\* returns the number of edges from the id the address resolves to, and
\* rel.count with a type equals the length of rel.all with that type.
C11_RelCountCountsEdges ==
    \A addr \in SentenceAddrs :
        /\ rel_count_function(addr, NoType).outcome = "ok"
        /\ rel_count_function(addr, NoType).count =
               Cardinality({ e \in relations.rows :
                               e.source_uuid = resolve_address(addr).uuid })
        /\ \A t \in RelTypes :
               /\ rel_count_function(addr, t).outcome = "ok"
               /\ rel_count_function(addr, t).count = rel_all_function(addr, t).count

\* C12: rel, rel.all, rel.count and uuid on a cell reference whose address
\* resolves to no occurrence fail with AddressNotFound.
C12_UnmappedCellFails ==
    \A row \in CellRows :
        ~Truthy(map_addr_to_uuid(cell_to_addr(row)).uuid) =>
            /\ \A t \in RelTypes :
                   /\ rel_function(cell_to_addr(row), t).outcome = "AddressNotFound"
                   /\ rel_all_function(cell_to_addr(row), t).outcome = "AddressNotFound"
            /\ rel_count_function(cell_to_addr(row), NoType).outcome = "AddressNotFound"
            /\ uuid_function(cell_to_addr(row)).outcome = "AddressNotFound"

\* C13: a process_document call whose content holds no sentence fails with
\* InvalidContent and writes no documents row and no blob.
C13_EmptyContentRejected ==
    \A p \in Procs :
        (loc[p].content # << >> /\ split_into_sentences(loc[p].content) = << >>) =>
            /\ loc[p].outcome = "InvalidContent"
            /\ ~\E d \in documents : d.uuid = loc[p].doc_uuid
            /\ <<"documents", loc[p].doc_uuid>> \notin hdf5

\* C14: when the sentence row of a call is committed and its HDF5 write
\* failed, the call still ends successfully.
C14_BlobFailureNotReported ==
    \A p \in Procs :
        (/\ pc[p] = "idle"
         /\ \E s \in sentences :
                s.uuid = loc[p].sentence_uuid /\ <<"sentences", s.uuid>> \notin hdf5)
        => loc[p].outcome = "ok"

\* C18: whenever the HDF5 payload of a sentence, a token or a document is
\* written, the rows that describe it are already committed: the
\* identifier row, and for sentences and tokens an occurrence row and an
\* address row.
C18_RowsBeforeBlob ==
    \A b \in hdf5 :
        /\ b[1] = "sentences" =>
               /\ \E s \in sentences : s.uuid = b[2]
               /\ \E m \in doc_sentence_map : m.sentence_uuid = b[2]
               /\ \E r \in address_book : r.uuid = b[2]
        /\ b[1] = "tokens" =>
               /\ \E m \in sentence_token_map :
                      get_token_addr(m.sentence_uuid, m.position) = b[2]
               /\ \E r \in address_book : r.uuid = b[2]
        /\ b[1] = "documents" => \E d \in documents : d.uuid = b[2]

\* f"{sentence_uuid}.{position}", the dot form of a token address.
DotForm(sentence_uuid, position) ==
    SubSeq(sentence_uuid, 1, 4) \o << <<"dot", position>> >>

\* The text of the token at a position of a sentence.
TokenTextAt(m) == (CHOOSE t \in tokens : t.id = m.token_id).text

\* C15: for every stored token occurrence (s, p) resolve_address of the dot
\* form and of the dash form both succeed with the token's text, sentence
\* id s and position p.
C15_TokenFormsAgree ==
    \A m \in sentence_token_map :
        \A form \in { DotForm(m.sentence_uuid, m.position),
                      get_token_addr(m.sentence_uuid, m.position) } :
            /\ resolve_address(form).outcome = "ok"
            /\ resolve_address(form).has_content
            /\ resolve_address(form).content = << TokenTextAt(m) >>
            /\ resolve_address(form).sentence_uuid = m.sentence_uuid
            /\ resolve_address(form).position = m.position

\* C16: resolve_address(addr, relative_to = r) on two addresses that resolve
\* to sentence ids succeeds and reports the relation types from r's id to
\* addr's id and back.
C16_RelativeReportsEdges ==
    \A addr, r \in SentenceAddrs :
        /\ resolve_relative(addr, r).outcome = "ok"
        /\ resolve_relative(addr, r).forward =
               { e.relation_type : e \in { x \in relations.rows :
                     /\ x.source_uuid = resolve_address(r).uuid
                     /\ x.target_uuid = resolve_address(addr).uuid } }
        /\ resolve_relative(addr, r).backward =
               { e.relation_type : e \in { x \in relations.rows :
                     /\ x.source_uuid = resolve_address(addr).uuid
                     /\ x.target_uuid = resolve_address(r).uuid } }

\* C17: register_mapping never lets a uniqueness error of the store escape:
\* a call ends with a (long id, short id) pair whose short id no other long
\* id uses, or with DuplicateMapping.
C17_RegisterNeverRaises ==
    \A p \in Procs :
        (lsPc[p] = "idle" /\ lsLoc[p].op = "register") =>
            \/ lsLoc[p].outcome = "DuplicateMapping"
            \/ /\ lsLoc[p].outcome = "ok"
               /\ ~\E r \in lstable :
                      r.dbidS = lsLoc[p].ret[2] /\ r.dbidL # lsLoc[p].ret[1]

\* C19: no read returns a payload of the blob store for an id without a
\* record in the relational store: get_embedding of an id that is not in
\* table sentences returns nothing.
C19_NoOrphanSurfaced ==
    \A uuid_value \in { b[2] : b \in { c \in hdf5 : c[1] = "sentences" } }
                          \cup { UnknownSentence } :
        get_embedding(uuid_value) # NoneStr => \E s \in sentences : s.uuid = uuid_value

\* C20: create_address never blanks a row that exists: the row keeps its
\* parent_addr, its uuid and type become the argument of the call when the
\* call names the row and the argument is non-null, and stay as they were
\* otherwise.
C20_ExistingNeverBlanked ==
    [][ \A r \in address_book :
            \E r2 \in address_book' :
                /\ r2.addr = r.addr
                /\ r2.parent_addr = r.parent_addr
                /\ r2.uuid = IF addrLast'.addr = r.addr /\ addrLast'.uuid # Null
                             THEN addrLast'.uuid ELSE r.uuid
                /\ r2.type = IF addrLast'.addr = r.addr /\ addrLast'.type # NoType
                             THEN addrLast'.type ELSE r.type
                /\ r.uuid # Null => r2.uuid # Null
                /\ r.type # NoType => r2.type # NoType ]_vars

\* The last call named an address that holds an id and a type and passed
\* neither.
C20_Witness ==
    /\ addrLast.addr # Null
    /\ addrLast.uuid = Null
    /\ addrLast.type = NoType
    /\ \E r \in address_book : r.addr = addrLast.addr /\ r.uuid # Null /\ r.type # NoType

\* C21: no step of process_document deletes or changes a sentence row, a
\* token row, an occurrence row or an address row: the tables only grow, and
\* a text that has a sentence id keeps it.
C21_RowsOnlyGrow ==
    [][ /\ sentences \subseteq sentences'
        /\ tokens \subseteq tokens'
        /\ doc_sentence_map \subseteq doc_sentence_map'
        /\ sentence_token_map \subseteq sentence_token_map'
        /\ address_book \subseteq address_book'
        /\ \A s \in sentences : \A s2 \in sentences' : s2.text = s.text => s2.uuid = s.uuid
      ]_vars

\* Two completed documents hold occurrences of one sentence id.
C21_Witness ==
    \E c1, c2 \in completed :
        /\ c1.doc_uuid # c2.doc_uuid
        /\ \E m1 \in OccurrencesOf(c1.doc_uuid), m2 \in OccurrencesOf(c2.doc_uuid) :
               m1.sentence_uuid = m2.sentence_uuid
        /\ tokens # {}

\* The lines of a file, as the set of (long id, short id) pairs they hold.
LinePairs(file) == { file.lines[i] : i \in DOMAIN file.lines }

\* C22: when no call is running, the global file holds exactly one line
\* "long=short" per row of lstable and no other line, and the file of each
\* registered long id holds its pair.
C22_FilesMirrorTable ==
    lsPc["p1"] = "idle" =>
        /\ LinePairs(globalFile) = { <<r.dbidL, r.dbidS>> : r \in lstable }
        /\ Len(globalFile.lines) = Cardinality(lstable)
        /\ \A r \in lstable : <<r.dbidL, r.dbidS>> \in LinePairs(perFile[r.dbidL])

\* C23: two callers that upsert the same thing at once both complete without
\* an error and leave one row: of two create_address calls that both found
\* the same address unregistered, neither ends with an error of the store,
\* and when both have returned the address has exactly one row.
C23_ConcurrentUpsertsSucceed ==
    \A p, q \in Procs :
        (/\ p # q
         /\ addrLoc[p].fresh /\ addrLoc[q].fresh
         /\ addrLoc[p].addr = addrLoc[q].addr)
        => /\ addrLoc[p].outcome \in {"none", "ok"}
           /\ (addrPc[p] = "idle" /\ addrPc[q] = "idle")
                  => Cardinality({ r \in address_book : r.addr = addrLoc[p].addr }) = 1

\* "doc:<document id>", written out.
DocumentAddress(d) == << <<"docg", d[1][2]>>, d[2], d[3], d[4], d[5] >>

\* C24: once process_document has completed, the registry holds the address
\* of the document, bound to the document's id with type document, and for
\* each sentence occurrence an address bound to the sentence's id with type
\* sentence.
C24_DocumentAndSentencesAddressed ==
    \A c \in completed :
        /\ \E r \in address_book :
               /\ r.addr = DocumentAddress(c.doc_uuid)
               /\ r.uuid = c.doc_uuid
               /\ r.type = "document"
        /\ \A m \in OccurrencesOf(c.doc_uuid) :
               \E r \in address_book :
                   /\ r.addr = OccurrenceAddress(c.doc_uuid, m.position)
                   /\ r.uuid = m.sentence_uuid
                   /\ r.type = "sentence"

\* An argument in the sense of the claim: non-empty, its quotes and parens
\* balanced, and no comma outside quotes at paren depth 0.
RECURSIVE BalancedArg(_, _, _)
BalancedArg(rest, in_quotes, depth) ==
    IF rest = << >> THEN ~in_quotes /\ depth = 0
    ELSE IF Head(rest) = "dq" THEN BalancedArg(Tail(rest), ~in_quotes, depth)
    ELSE IF in_quotes THEN BalancedArg(Tail(rest), in_quotes, depth)
    ELSE IF Head(rest) = "(" THEN BalancedArg(Tail(rest), in_quotes, depth + 1)
    ELSE IF Head(rest) = ")" THEN depth > 0 /\ BalancedArg(Tail(rest), in_quotes, depth - 1)
    ELSE IF Head(rest) = "," THEN depth > 0 /\ BalancedArg(Tail(rest), in_quotes, depth)
    ELSE BalancedArg(Tail(rest), in_quotes, depth)
WellFormedArg(a) == a # << >> /\ BalancedArg(a, FALSE, 0)

\* C25: for a formula f(a1, ..., an) whose arguments are non-empty and have
\* balanced quotes and parens, _parse_formula returns exactly the trimmed
\* arguments a1, ..., an.
C25_SplitsAtTopLevelCommas ==
    (/\ formula.given
     /\ \A i \in DOMAIN formula.args : WellFormedArg(formula.args[i]))
    => /\ parsed.outcome = "ok"
       /\ parsed.args = [i \in DOMAIN formula.args |-> Strip(formula.args[i])]

\* DocumentManager.get_document(doc_uuid, dbidL, dbidS): the rows of the
\* SELECT on doc_sentence_map, ORDER BY m.position.
DocumentSentences(doc_uuid) == OrderOcc(OccurrencesOf(doc_uuid))

\* get_document: [outcome, sentences].  For a stored document the list
\* `sentences` is built and the function ends in `return results`, a name it
\* never binds.
get_document(doc_uuid, dbidL, dbidS) ==
    IF ~Truthy(doc_uuid) /\ (dbidL = NoneStr \/ dbidS = NoShort)
    THEN [outcome |-> "ValueError", sentences |-> << >>]
    ELSE LET result == IF Truthy(doc_uuid)
                       THEN { d \in documents : d.uuid = doc_uuid }
                       ELSE { d \in documents : d.dbidL = dbidL /\ d.dbidS = dbidS }
         IN IF result = {}
            THEN [outcome |-> NoneStr, sentences |-> << >>]
            ELSE [outcome |-> "NameError", sentences |-> << >>]

\* C26: get_document of a stored document, by its id or by its long and
\* short id, returns the document with its sentences in increasing position
\* order; it never fails for a stored document.
C26_GetDocumentReturns ==
    \A d \in documents :
        /\ get_document(d.uuid, NoneStr, NoShort).outcome = "ok"
        /\ get_document(Null, d.dbidL, d.dbidS).outcome = "ok"
        /\ get_document(d.uuid, NoneStr, NoShort).sentences = DocumentSentences(d.uuid)

\* C27: for every sentence id u and every address a that map_uuid_to_addr(u)
\* returns, map_addr_to_uuid(a) returns u.
C27_AddrUuidInverse ==
    \A s \in sentences :
        LET addrs == map_uuid_to_addr(s.uuid, Null)
        IN \A i \in DOMAIN addrs :
               /\ ~map_addr_to_uuid(addrs[i]).raised
               /\ map_addr_to_uuid(addrs[i]).uuid = s.uuid

\* C28: while no relation has ever been created, the relation queries on an
\* address that resolves to a sentence do not fail: rel returns null, rel.all
\* the empty list, rel.count 0, and resolve_address with relative_to reports
\* no relations.
C28_NoRelationsNoFailure ==
    ~relations.exists =>
        \A addr \in SentenceAddrs :
            /\ \A t \in RelTypes :
                   /\ rel_function(addr, t) = [outcome |-> "ok", found |-> FALSE, text |-> << >>]
                   /\ rel_all_function(addr, t) = [outcome |-> "ok", count |-> 0]
                   /\ rel_count_function(addr, t) = [outcome |-> "ok", count |-> 0]
            /\ rel_count_function(addr, NoType) = [outcome |-> "ok", count |-> 0]
            /\ \A r \in SentenceAddrs :
                   resolve_relative(addr, r) =
                       [outcome |-> "ok", forward |-> {}, backward |-> {}]

\* C29: every sentence that a completed document references has its token
\* occurrences recorded at the positions 0..m-1, m the number of its tokens.
C29_ReferencedSentencesTokenized ==
    \A c \in completed :
        \A m \in OccurrencesOf(c.doc_uuid) :
            \A s \in { x \in sentences : x.uuid = m.sentence_uuid } :
                { t.position : t \in { x \in sentence_token_map :
                                         x.sentence_uuid = s.uuid } }
                    = 0..(Len(tokenize_sentence(s.text)) - 1)

\* C30: when two callers have registered two different long ids, neither of
\* which is matched by the other's line, and both calls have returned with
\* both rows in lstable, the global file holds the lines of both mappings.
C30_BothLinesInGlobalFile ==
    \A p, q \in Procs :
        (/\ p # q
         /\ lsPc[p] = "idle" /\ lsPc[q] = "idle"
         /\ lsLoc[p].op = "register" /\ lsLoc[q].op = "register"
         /\ lsLoc[p].outcome = "ok" /\ lsLoc[q].outcome = "ok"
         /\ lsLoc[p].ret[1] # lsLoc[q].ret[1]
         /\ ~StartsWith(lsLoc[p].ret, lsLoc[q].ret[1])
         /\ ~StartsWith(lsLoc[q].ret, lsLoc[p].ret[1])
         /\ \A c \in {p, q} :
                [dbidL |-> lsLoc[c].ret[1], dbidS |-> lsLoc[c].ret[2]] \in lstable)
        => /\ lsLoc[p].ret \in LinePairs(globalFile)
           /\ lsLoc[q].ret \in LinePairs(globalFile)

====
